---------------------------- MODULE Spec2Model ----------------------------
(***************************************************************************)
(* avr-onewire: a 1-Wire bus master for AVR (src/src/onewire.c, with its   *)
(* configuration header src/unnamed/part_000 and its interface header      *)
(* src/unnamed/part_001).                                                  *)
(*                                                                         *)
(* The program is modelled statement by statement.  The call stack is a    *)
(* sequence of frames; a frame holds the function's name, the source line  *)
(* of onewire.c it executes next (pc) and the function's locals under      *)
(* their source names.  Every action below is one statement of onewire.c   *)
(* and is named after its function and its line.  A statement inside       *)
(* #ifdef X ... #endif is a step that does nothing when X is not defined.  *)
(*                                                                         *)
(* The bus is the environment: the pull-up resistor, the slave devices     *)
(* and the faults of the line.  It reacts to the master's register writes  *)
(* and delays, and decides the level the master samples.                   *)
(***************************************************************************)
EXTENDS Naturals, Integers, Sequences, FiniteSets

VARIABLES
    OW_INTERNAL_PULLUP,           \* part_000:45, whether the macro is defined
    OW_BLOCK_INTERRUPTS,          \* part_000:46
    OW_BLOCK_INTERRUPTS_BITLEVEL, \* part_000:47
    SHIFT_WIDE,   \* the build: how it evaluates an int shift that overflows
    ddr,          \* bit OW_BIT of OW_DIRECTION (DDRC): 1 = output
    port,         \* bit OW_BIT of OW_PORT (PORTC)
    sreg_i,       \* global interrupt enable flag: cli() clears it, sei() sets it
    stack,        \* call stack, the running function's frame last
    ret,          \* value returned by the last function that returned one
    roms,         \* ctx->roms
    devices,      \* identifiers of the slave devices on the bus
    active,       \* devices still taking part in the running search pass
    phase,        \* what the devices do in the next slot
    pos,          \* address bit position the devices are at (0..64)
    cmd,          \* bits of the command byte received since the reset pulse
    hold,         \* microseconds for which a device still pulls the line low
    lowtime,      \* microseconds of the master's current low pulse
    wire,         \* the line: "bus", "dead", "short" or "loopback"
    nfaults,      \* faults of the line so far
    trace,        \* line events of the running (or last) reset or bit slot
    slot,         \* the last completed OwReset, OwReadBit or OwWriteBit
    api,          \* the running API call: its function, argument, reset count, slots
    hist          \* results of the completed API calls, oldest first

conf == <<OW_INTERNAL_PULLUP, OW_BLOCK_INTERRUPTS, OW_BLOCK_INTERRUPTS_BITLEVEL, SHIFT_WIDE>>
hw   == <<ddr, port, sreg_i>>
prog == <<stack, ret, roms>>
dev  == <<active, phase, pos, cmd>>
line == <<hold, lowtime>>
env  == <<devices, active, phase, pos, cmd, hold, lowtime, wire, nfaults>>
obs  == <<trace, slot, api, hist>>
vars == <<conf, hw, prog, env, obs>>

----------------------------------------------------------------------------
(* Program constants.                                                      *)

OW_MAX_ROMS == 5
OW_SEARCH_ROM == 240
OW_MATCH_ROM == 85
OW_RESET_DELAY == 500
OW_LONG_DELAY == 60
OW_SHORT_DELAY == 5
OW_SAMPLE_DELAY == 5

\* Width of int on the target (avr-gcc) and of the uint32_t difference stack.
INT_BITS == 16
DIFF_BITS == 32

----------------------------------------------------------------------------
(* Bounds of the model.                                                    *)

\* API calls made in one behaviour.
MaxCalls == 2
\* Devices of the comb-shaped bus (one conflict per device on the first pass).
CombSize == 17
\* Changes of the line's condition in one behaviour.
MaxFaults == 1

----------------------------------------------------------------------------
(* Bytes and identifiers.                                                  *)

Pow2(n) == 2 ^ n

\* (x >> n) & 1 for a byte x
BitOf(x, n) == (x \div Pow2(n)) % 2

\* x | (1 << n) for a byte x and n in 0..7
OrBit(x, n) == IF BitOf(x, n) = 1 THEN x ELSE x + Pow2(n)

\* The 8-byte identifier whose set bits, in transmission order, are S.
Rom(S) ==
    [j \in 0..7 |->
        LET b(k) == IF (8 * j + k) \in S THEN Pow2(k) ELSE 0
        IN  b(0) + b(1) + b(2) + b(3) + b(4) + b(5) + b(6) + b(7)]

\* Address bit p (0..63) of an identifier: bytes in storage order, each
\* least significant bit first.
IdBit(id, p) == BitOf(id[p \div 8], p % 8)

----------------------------------------------------------------------------
(* The line and the devices on it.                                         *)

\* A device acts on a reset pulse when the line was low for at least this long.
T_RESET_MIN == 480
\* A device reads a write slot as 1 when the low pulse is shorter than this.
T_WRITE_SAMPLE == 15
\* A device sending 0 holds the line low this long from the slot's start.
T_READ_HOLD == 30
\* Devices answer a reset pulse by holding the line low this long.
T_PRESENCE == 120

\* What the master's pin does to the line.
PinState(d, p) ==
    IF d = 1 THEN (IF p = 1 THEN "high" ELSE "low") ELSE "released"

\* The level a read of OW_PIN gives: low when the master, a device or a
\* short circuit holds the line low, high when the pull-up is left alone.
\* On a dead line no device is heard.
Level ==
    IF \/ PinState(ddr, port) = "low"
       \/ wire = "short"
       \/ (hold > 0 /\ wire # "dead")
    THEN 0
    ELSE 1

\* Whether a device puts a 0 on the line in the slot that starts now.
SendsZero(d) ==
    \/ phase = "tx_bit" /\ IdBit(d, pos) = 0
    \/ phase = "tx_cmp" /\ IdBit(d, pos) = 1

\* The byte whose bits, least significant first, are the sequence b.
ByteOfBits(b) ==
    LET v(n) == IF n <= Len(b) THEN b[n] * Pow2(n - 1) ELSE 0
    IN  v(1) + v(2) + v(3) + v(4) + v(5) + v(6) + v(7) + v(8)

\* The master starts driving the line low: a slot (or a reset pulse) begins.
FallingEdge ==
    /\ lowtime' = 0
    /\ hold' = IF \/ \E d \in active : SendsZero(d)
                  \/ phase = "echo" /\ Head(cmd) = 0
               THEN T_READ_HOLD ELSE 0
    /\ UNCHANGED dev

\* The master stops driving the line low.  The devices tell a reset pulse
\* from a slot by the length of the low pulse, and read a written bit
\* from it.
ReleaseEdge ==
    LET bit == IF lowtime < T_WRITE_SAMPLE THEN 1 ELSE 0 IN
    /\ lowtime' = 0
    /\ IF lowtime >= T_RESET_MIN
       THEN /\ active' = devices
            /\ phase' = "cmd"
            /\ pos' = 0
            /\ cmd' = <<>>
            /\ hold' = IF devices # {} THEN T_PRESENCE ELSE 0
       ELSE /\ hold' = hold
            /\ CASE phase = "cmd" ->
                      /\ cmd' = IF Len(cmd) < 7 \/ wire = "loopback"
                                THEN Append(cmd, bit) ELSE <<>>
                      /\ phase' = IF Len(cmd) < 7 THEN "cmd"
                                  ELSE IF wire = "loopback" THEN "echo"
                                  ELSE IF ByteOfBits(Append(cmd, bit)) = OW_SEARCH_ROM
                                       THEN "tx_bit" ELSE "idle"
                      /\ UNCHANGED <<active, pos>>
                 [] phase = "echo" ->
                      /\ cmd' = Tail(cmd)
                      /\ phase' = IF Len(cmd) = 1 THEN "cmd" ELSE "echo"
                      /\ UNCHANGED <<active, pos>>
                 [] phase = "tx_bit" ->
                      /\ phase' = "tx_cmp"
                      /\ UNCHANGED <<active, pos, cmd>>
                 [] phase = "tx_cmp" ->
                      /\ phase' = "rx_sel"
                      /\ UNCHANGED <<active, pos, cmd>>
                 [] phase = "rx_sel" ->
                      /\ active' = {d \in active : IdBit(d, pos) = bit}
                      /\ pos' = IF pos = 63 THEN 0 ELSE pos + 1
                      /\ phase' = IF pos = 63 THEN "idle" ELSE "tx_bit"
                      /\ cmd' = cmd
                 [] OTHER -> UNCHANGED dev

\* A write to OW_DIRECTION or OW_PORT that leaves them at d and p.
RegWrite(d, p) ==
    LET before == PinState(ddr, port)
        after  == PinState(d, p)
    IN  /\ ddr' = d
        /\ port' = p
        /\ trace' = IF after # before THEN Append(trace, <<after>>) ELSE trace
        /\ IF after = "low" /\ before # "low" THEN FallingEdge
           ELSE IF before = "low" /\ after # "low" THEN ReleaseEdge
           ELSE UNCHANGED <<dev, line>>
        /\ UNCHANGED <<devices, wire, nfaults>>

\* _delay_us(n)
Delay(n) ==
    /\ trace' = Append(trace, <<"delay", n>>)
    /\ lowtime' = IF PinState(ddr, port) = "low" THEN lowtime + n ELSE lowtime
    /\ hold' = IF hold > n THEN hold - n ELSE 0
    /\ UNCHANGED <<ddr, port, devices, dev, wire, nfaults>>

\* A read of OW_PIN that gives level v.
Sample(v) ==
    /\ v = Level
    /\ trace' = Append(trace, <<"sample", v>>)
    /\ UNCHANGED <<ddr, port, env>>

\* cli() and sei() under #ifdef: nothing when the macro is not defined.
Cli(defined) == sreg_i' = IF defined THEN FALSE ELSE sreg_i
Sei(defined) == sreg_i' = IF defined THEN TRUE ELSE sreg_i

----------------------------------------------------------------------------
(* The call stack.                                                         *)

Top == stack[Len(stack)]

At(f, l) == stack # <<>> /\ Top.fn = f /\ Top.pc = l

\* The running frame replaced by frame f.
SetTop(f) == [stack EXCEPT ![Len(stack)] = f]

Goto(l) == SetTop([Top EXCEPT !.pc = l])

\* Call: the caller resumes at line l when the callee's frame f is popped.
Call(l, f) == Append(Goto(l), f)

Return == SubSeq(stack, 1, Len(stack) - 1)

NoSlot == [fn |-> "none"]
Idle == [fn |-> "none"]

\* What every statement leaves alone, by the kind of statement.
Ctl(next) ==
    /\ stack' = next
    /\ UNCHANGED <<conf, hw, ret, roms, env, obs>>

Reg(d, p, next) ==
    /\ RegWrite(d, p)
    /\ stack' = next
    /\ UNCHANGED <<conf, sreg_i, ret, roms, slot, api, hist>>

Wait(n, next) ==
    /\ Delay(n)
    /\ stack' = next
    /\ UNCHANGED <<conf, sreg_i, ret, roms, slot, api, hist>>

Irq(flag, next) ==
    /\ sreg_i' = flag
    /\ stack' = next
    /\ UNCHANGED <<conf, ddr, port, ret, roms, env, obs>>

\* The record of an API call that returns v, kept when the function was
\* called from outside the library (its frame is the only one).
DoneWith(v, flag, ops) ==
    IF Len(stack) = 1
    THEN /\ hist' = Append(hist, [sreg_i |-> flag, ret |-> v, roms |-> roms,
                                  fn |-> api.fn,
                                  ops |-> ops,
                                  arg |-> api.arg,
                                  resets |-> api.resets,
                                  entry |-> api.entry])
         /\ api' = Idle
    ELSE /\ api' = [api EXCEPT !.ops = ops]
         /\ hist' = hist

Done(v, flag) == DoneWith(v, flag, api.ops)

\* The bit a device reads from a write slot with trace t: 1 when the first
\* delay of the slot, which is made with the line low, is shorter than
\* T_WRITE_SAMPLE.
WrittenBit(t) ==
    LET delays == SelectSeq(t, LAMBDA e : e[1] = "delay")
    IN  IF delays # <<>> /\ delays[1][2] < T_WRITE_SAMPLE THEN 1 ELSE 0

----------------------------------------------------------------------------
(* static inline void OwWriteBusHigh(void), onewire.c:30-37                *)

OwWriteBusHigh_32 ==
    /\ At("OwWriteBusHigh", 32)
    /\ Reg(0, port, Goto(34))

OwWriteBusHigh_34 ==
    /\ At("OwWriteBusHigh", 34)
    /\ Reg(ddr, IF OW_INTERNAL_PULLUP THEN 1 ELSE port, Return)

OwWriteBusHigh ==
    \/ OwWriteBusHigh_32
    \/ OwWriteBusHigh_34

(* static inline void OwWriteBusLow(void), onewire.c:43-50                 *)

OwWriteBusLow_45 ==
    /\ At("OwWriteBusLow", 45)
    /\ Reg(1, port, Goto(47))

OwWriteBusLow_47 ==
    /\ At("OwWriteBusLow", 47)
    /\ Reg(ddr, IF OW_INTERNAL_PULLUP THEN 0 ELSE port, Return)

OwWriteBusLow ==
    \/ OwWriteBusLow_45
    \/ OwWriteBusLow_47

BusHighFrame == [fn |-> "OwWriteBusHigh", pc |-> 32]
BusLowFrame == [fn |-> "OwWriteBusLow", pc |-> 45]

(* void OwInit(void), onewire.c:57-62                                      *)

OwInit_59 ==
    /\ At("OwInit", 59)
    /\ Ctl(Call(60, BusHighFrame))

OwInit_60 ==
    /\ At("OwInit", 60)
    /\ RegWrite(ddr, 0)
    /\ stack' = Return
    /\ Done(0, sreg_i)
    /\ UNCHANGED <<conf, sreg_i, ret, roms, slot>>

OwInit ==
    \/ OwInit_59
    \/ OwInit_60

----------------------------------------------------------------------------
(* uint8_t OwReset(void), onewire.c:70-107                                 *)

OwResetFrame == [fn |-> "OwReset", pc |-> 75, presence |-> 0]

OwReset_75 ==
    /\ At("OwReset", 75)
    /\ Cli(OW_BLOCK_INTERRUPTS)
    /\ stack' = Goto(79)
    /\ trace' = <<>>
    /\ api' = [api EXCEPT !.resets = @ + 1, !.ops = <<>>]
    /\ UNCHANGED <<conf, ddr, port, ret, roms, env, slot, hist>>

OwReset_79 ==
    /\ At("OwReset", 79)
    /\ Ctl(Call(81, BusLowFrame))

OwReset_81 ==
    /\ At("OwReset", 81)
    /\ Wait(OW_RESET_DELAY, Goto(84))

OwReset_84 ==
    /\ At("OwReset", 84)
    /\ Irq(IF OW_BLOCK_INTERRUPTS_BITLEVEL THEN FALSE ELSE sreg_i, Goto(87))

OwReset_87 ==
    /\ At("OwReset", 87)
    /\ Ctl(Call(90, BusHighFrame))

OwReset_90 ==
    /\ At("OwReset", 90)
    /\ Wait(OW_LONG_DELAY, Goto(93))

OwReset_93 ==
    /\ At("OwReset", 93)
    /\ \E v \in {0, 1} :
          /\ Sample(v)
          /\ stack' = SetTop([Top EXCEPT !.pc = 96, !.presence = v])
    /\ UNCHANGED <<conf, sreg_i, ret, roms, slot, api, hist>>

OwReset_96 ==
    /\ At("OwReset", 96)
    /\ Irq(IF OW_BLOCK_INTERRUPTS_BITLEVEL THEN TRUE ELSE sreg_i, Goto(99))

\* Variant that waits a whole OW_RESET_DELAY after the sample.
OwReset_99_FullDelay ==
    /\ At("OwReset", 99)
    /\ Wait(OW_RESET_DELAY, Goto(102))

OwReset_99 ==
    /\ At("OwReset", 99)
    /\ Wait(OW_RESET_DELAY - OW_LONG_DELAY, Goto(102))

OwReset_102 ==
    /\ At("OwReset", 102)
    /\ Irq(IF OW_BLOCK_INTERRUPTS THEN TRUE ELSE sreg_i, Goto(106))

\* Variant that returns the sampled level itself.
OwReset_106_NotInverted ==
    /\ At("OwReset", 106)
    /\ ret' = Top.presence
    /\ stack' = Return
    /\ slot' = [ret |-> ret', trace |-> trace, fn |-> "OwReset", arg |-> 0,
                pin |-> PinState(ddr, port)]
    /\ DoneWith(ret', sreg_i, Append(api.ops, <<"reset", ret'>>))
    /\ UNCHANGED <<conf, hw, roms, env, trace>>

\* presence ^ 0x01
OwReset_106 ==
    /\ At("OwReset", 106)
    /\ ret' = 1 - Top.presence
    /\ stack' = Return
    /\ slot' = [ret |-> ret', trace |-> trace, fn |-> "OwReset", arg |-> 0,
                pin |-> PinState(ddr, port)]
    /\ DoneWith(ret', sreg_i, Append(api.ops, <<"reset", ret'>>))
    /\ UNCHANGED <<conf, hw, roms, env, trace>>

OwReset ==
    \/ OwReset_75
    \/ OwReset_79
    \/ OwReset_81
    \/ OwReset_84
    \/ OwReset_87
    \/ OwReset_90
    \/ OwReset_93
    \/ OwReset_96
    \/ OwReset_99
    \/ OwReset_102
    \/ OwReset_106

----------------------------------------------------------------------------
(* static inline uint8_t OwReadBit(void), onewire.c:115-150                *)

OwReadBitFrame == [fn |-> "OwReadBit", pc |-> 118]

OwReadBit_118 ==
    /\ At("OwReadBit", 118)
    /\ Cli(OW_BLOCK_INTERRUPTS_BITLEVEL)
    /\ stack' = Goto(122)
    /\ trace' = <<>>
    /\ UNCHANGED <<conf, ddr, port, ret, roms, env, slot, api, hist>>

OwReadBit_122 ==
    /\ At("OwReadBit", 122)
    /\ Ctl(Call(123, BusLowFrame))

OwReadBit_123 ==
    /\ At("OwReadBit", 123)
    /\ Wait(OW_SHORT_DELAY, Goto(126))

OwReadBit_126 ==
    /\ At("OwReadBit", 126)
    /\ Ctl(Call(127, BusHighFrame))

OwReadBit_127 ==
    /\ At("OwReadBit", 127)
    /\ Wait(OW_SAMPLE_DELAY, Goto(130))

\* if(OW_PIN & (1 << OW_BIT))
OwReadBit_130 ==
    /\ At("OwReadBit", 130)
    /\ \E v \in {0, 1} :
          /\ Sample(v)
          /\ stack' = Goto(IF v = 1 THEN 132 ELSE 140)
    /\ UNCHANGED <<conf, sreg_i, ret, roms, slot, api, hist>>

OwReadBit_132 ==
    /\ At("OwReadBit", 132)
    /\ Wait(OW_LONG_DELAY - OW_SAMPLE_DELAY, Goto(134))

OwReadBit_134 ==
    /\ At("OwReadBit", 134)
    /\ Irq(IF OW_BLOCK_INTERRUPTS_BITLEVEL THEN TRUE ELSE sreg_i, Goto(136))

OwReadBit_136 ==
    /\ At("OwReadBit", 136)
    /\ ret' = 1
    /\ stack' = Return
    /\ slot' = [ret |-> 1, trace |-> trace, fn |-> "OwReadBit", arg |-> 0,
                pin |-> PinState(ddr, port)]
    /\ api' = [api EXCEPT !.ops = Append(@, <<"read", 1>>)]
    /\ UNCHANGED <<conf, hw, roms, env, trace, hist>>

\* Variant of the else branch without its delay.
OwReadBit_140_NoDelay ==
    /\ At("OwReadBit", 140)
    /\ Ctl(Goto(142))

OwReadBit_140 ==
    /\ At("OwReadBit", 140)
    /\ Wait(OW_LONG_DELAY - OW_SAMPLE_DELAY, Goto(142))

OwReadBit_142 ==
    /\ At("OwReadBit", 142)
    /\ Irq(IF OW_BLOCK_INTERRUPTS_BITLEVEL THEN TRUE ELSE sreg_i, Goto(144))

OwReadBit_144 ==
    /\ At("OwReadBit", 144)
    /\ ret' = 0
    /\ stack' = Return
    /\ slot' = [ret |-> 0, trace |-> trace, fn |-> "OwReadBit", arg |-> 0,
                pin |-> PinState(ddr, port)]
    /\ api' = [api EXCEPT !.ops = Append(@, <<"read", 0>>)]
    /\ UNCHANGED <<conf, hw, roms, env, trace, hist>>

OwReadBit ==
    \/ OwReadBit_118
    \/ OwReadBit_122
    \/ OwReadBit_123
    \/ OwReadBit_126
    \/ OwReadBit_127
    \/ OwReadBit_130
    \/ OwReadBit_132
    \/ OwReadBit_134
    \/ OwReadBit_136
    \/ OwReadBit_140
    \/ OwReadBit_142
    \/ OwReadBit_144

----------------------------------------------------------------------------
(* uint8_t OwReadByte(void), onewire.c:158-181                             *)

OwReadByteFrame == [fn |-> "OwReadByte", pc |-> 161, i |-> 0, data |-> 0]

OwReadByte_161 ==
    /\ At("OwReadByte", 161)
    /\ Irq(IF OW_BLOCK_INTERRUPTS THEN FALSE ELSE sreg_i, Goto(166))

\* uint8_t data = 0; and the for loop's i = 0
OwReadByte_166 ==
    /\ At("OwReadByte", 166)
    /\ Ctl(SetTop([Top EXCEPT !.pc = 169, !.data = 0, !.i = 0]))

\* i < 8
OwReadByte_169 ==
    /\ At("OwReadByte", 169)
    /\ Ctl(Goto(IF Top.i < 8 THEN 171 ELSE 176))

\* the call in data |= OwReadBit() << i
OwReadByte_171 ==
    /\ At("OwReadByte", 171)
    /\ Ctl(Call(173, OwReadBitFrame))

\* the assignment of data |= OwReadBit() << i, then i++
OwReadByte_173 ==
    /\ At("OwReadByte", 173)
    /\ Ctl(SetTop([Top EXCEPT !.pc = 169,
                              !.data = IF ret = 1 THEN OrBit(@, Top.i) ELSE @,
                              !.i = @ + 1]))

OwReadByte_176 ==
    /\ At("OwReadByte", 176)
    /\ Irq(IF OW_BLOCK_INTERRUPTS THEN TRUE ELSE sreg_i, Goto(179))

OwReadByte_179 ==
    /\ At("OwReadByte", 179)
    /\ ret' = Top.data
    /\ stack' = Return
    /\ Done(ret', sreg_i)
    /\ UNCHANGED <<conf, hw, roms, env, trace, slot>>

OwReadByte ==
    \/ OwReadByte_161
    \/ OwReadByte_166
    \/ OwReadByte_169
    \/ OwReadByte_171
    \/ OwReadByte_173
    \/ OwReadByte_176
    \/ OwReadByte_179

----------------------------------------------------------------------------
(* static inline void OwWriteBit(uint8_t data), onewire.c:189-222          *)

OwWriteBitFrame(data) == [fn |-> "OwWriteBit", pc |-> 192, data |-> data]

\* Variant without the cli() of the bit-level option.
OwWriteBit_192_NoCli ==
    /\ At("OwWriteBit", 192)
    /\ stack' = Goto(196)
    /\ trace' = <<>>
    /\ UNCHANGED <<conf, hw, ret, roms, env, slot, api, hist>>

OwWriteBit_192 ==
    /\ At("OwWriteBit", 192)
    /\ Cli(OW_BLOCK_INTERRUPTS_BITLEVEL)
    /\ stack' = Goto(196)
    /\ trace' = <<>>
    /\ UNCHANGED <<conf, ddr, port, ret, roms, env, slot, api, hist>>

\* Variant that tests the whole argument: if(data).
OwWriteBit_196_WholeByte ==
    /\ At("OwWriteBit", 196)
    /\ Ctl(Goto(IF Top.data # 0 THEN 199 ELSE 209))

\* if(data & 1)
OwWriteBit_196 ==
    /\ At("OwWriteBit", 196)
    /\ Ctl(Goto(IF Top.data % 2 = 1 THEN 199 ELSE 209))

OwWriteBit_199 ==
    /\ At("OwWriteBit", 199)
    /\ Ctl(Call(200, BusLowFrame))

OwWriteBit_200 ==
    /\ At("OwWriteBit", 200)
    /\ Wait(OW_SHORT_DELAY, Goto(203))

OwWriteBit_203 ==
    /\ At("OwWriteBit", 203)
    /\ Ctl(Call(204, BusHighFrame))

OwWriteBit_204 ==
    /\ At("OwWriteBit", 204)
    /\ Wait(OW_LONG_DELAY, Goto(219))

OwWriteBit_209 ==
    /\ At("OwWriteBit", 209)
    /\ Ctl(Call(210, BusLowFrame))

OwWriteBit_210 ==
    /\ At("OwWriteBit", 210)
    /\ Wait(OW_LONG_DELAY, Goto(213))

OwWriteBit_213 ==
    /\ At("OwWriteBit", 213)
    /\ Ctl(Call(214, BusHighFrame))

OwWriteBit_214 ==
    /\ At("OwWriteBit", 214)
    /\ Wait(OW_SHORT_DELAY, Goto(219))

\* sei() under #ifdef, and the function's end
OwWriteBit_219 ==
    /\ At("OwWriteBit", 219)
    /\ Sei(OW_BLOCK_INTERRUPTS_BITLEVEL)
    /\ stack' = Return
    /\ slot' = [ret |-> 0, trace |-> trace, fn |-> "OwWriteBit",
                arg |-> Top.data, pin |-> PinState(ddr, port)]
    /\ api' = [api EXCEPT !.ops = Append(@, <<"write", WrittenBit(trace)>>)]
    /\ UNCHANGED <<conf, ddr, port, ret, roms, env, trace, hist>>

OwWriteBit ==
    \/ OwWriteBit_192
    \/ OwWriteBit_196
    \/ OwWriteBit_199
    \/ OwWriteBit_200
    \/ OwWriteBit_203
    \/ OwWriteBit_204
    \/ OwWriteBit_209
    \/ OwWriteBit_210
    \/ OwWriteBit_213
    \/ OwWriteBit_214
    \/ OwWriteBit_219

----------------------------------------------------------------------------
(* void OwWriteByte(uint8_t data), onewire.c:230-249                       *)

OwWriteByteFrame(data) == [fn |-> "OwWriteByte", pc |-> 233, i |-> 0,
                           data |-> data]

\* cli() under #ifdef, and the for loop's i = 0
OwWriteByte_233 ==
    /\ At("OwWriteByte", 233)
    /\ Irq(IF OW_BLOCK_INTERRUPTS THEN FALSE ELSE sreg_i,
           SetTop([Top EXCEPT !.pc = 239, !.i = 0]))

\* i < 8
OwWriteByte_239 ==
    /\ At("OwWriteByte", 239)
    /\ Ctl(Goto(IF Top.i < 8 THEN 241 ELSE 246))

\* Variant that sends the most significant bit first: OwWriteBit(data >> (7 - i)).
OwWriteByte_241_MsbFirst ==
    /\ At("OwWriteByte", 241)
    /\ Ctl(Call(243, OwWriteBitFrame(Top.data \div Pow2(7 - Top.i))))

\* OwWriteBit(data >> i)
OwWriteByte_241 ==
    /\ At("OwWriteByte", 241)
    /\ Ctl(Call(243, OwWriteBitFrame(Top.data \div Pow2(Top.i))))

\* i++
OwWriteByte_243 ==
    /\ At("OwWriteByte", 243)
    /\ Ctl(SetTop([Top EXCEPT !.pc = 239, !.i = @ + 1]))

\* Variant without the sei() of OW_BLOCK_INTERRUPTS.
OwWriteByte_246_NoSei ==
    /\ At("OwWriteByte", 246)
    /\ stack' = Return
    /\ Done(0, sreg_i)
    /\ UNCHANGED <<conf, hw, ret, roms, env, trace, slot>>

\* sei() under #ifdef, and the function's end
OwWriteByte_246 ==
    /\ At("OwWriteByte", 246)
    /\ Sei(OW_BLOCK_INTERRUPTS)
    /\ stack' = Return
    /\ Done(0, sreg_i')
    /\ UNCHANGED <<conf, ddr, port, ret, roms, env, trace, slot>>

OwWriteByte ==
    \/ OwWriteByte_233
    \/ OwWriteByte_239
    \/ OwWriteByte_241
    \/ OwWriteByte_243
    \/ OwWriteByte_246

----------------------------------------------------------------------------
(* void OwWriteByteTo(OwContext* ctx, uint8_t rom, uint8_t data),          *)
(* onewire.c:258-281                                                       *)

OwWriteByteToFrame(rom, data) ==
    [fn |-> "OwWriteByteTo", pc |-> 261, i |-> 0, data |-> data, rom |-> rom]

OwWriteByteTo_261 ==
    /\ At("OwWriteByteTo", 261)
    /\ Irq(IF OW_BLOCK_INTERRUPTS THEN FALSE ELSE sreg_i, Goto(267))

\* OwWriteByte(OW_MATCH_ROM), and the for loop's i = 0
OwWriteByteTo_267 ==
    /\ At("OwWriteByteTo", 267)
    /\ Ctl(Append(SetTop([Top EXCEPT !.pc = 270, !.i = 0]),
                  OwWriteByteFrame(OW_MATCH_ROM)))

\* i < 8
OwWriteByteTo_270 ==
    /\ At("OwWriteByteTo", 270)
    /\ Ctl(Goto(IF Top.i < 8 THEN 271 ELSE 275))

\* Variant that sends the identifier in reverse storage order.
OwWriteByteTo_271_Reversed ==
    /\ At("OwWriteByteTo", 271)
    /\ Ctl(Append(SetTop([Top EXCEPT !.pc = 270, !.i = @ + 1]),
                  OwWriteByteFrame(roms[Top.rom][7 - Top.i])))

\* OwWriteByte(ctx->roms[rom][i]), then i++
OwWriteByteTo_271 ==
    /\ At("OwWriteByteTo", 271)
    /\ Ctl(Append(SetTop([Top EXCEPT !.pc = 270, !.i = @ + 1]),
                  OwWriteByteFrame(roms[Top.rom][Top.i])))

OwWriteByteTo_275 ==
    /\ At("OwWriteByteTo", 275)
    /\ Ctl(Call(278, OwWriteByteFrame(Top.data)))

\* sei() under #ifdef, and the function's end
OwWriteByteTo_278 ==
    /\ At("OwWriteByteTo", 278)
    /\ Sei(OW_BLOCK_INTERRUPTS)
    /\ stack' = Return
    /\ Done(0, sreg_i')
    /\ UNCHANGED <<conf, ddr, port, ret, roms, env, trace, slot>>

OwWriteByteTo ==
    \/ OwWriteByteTo_261
    \/ OwWriteByteTo_267
    \/ OwWriteByteTo_270
    \/ OwWriteByteTo_271
    \/ OwWriteByteTo_275
    \/ OwWriteByteTo_278

----------------------------------------------------------------------------
(* uint8_t OwSearchRom(OwContext* ctx), onewire.c:291-417                  *)

\* The difference stack, uint32_t diff, is the set of the positions of its
\* set bits.  Shl1(p) is the value of 1 << p as it is combined with diff.
\* The shift is made in int, INT_BITS wide, and the result converted to
\* uint32_t with its sign: for p below INT_BITS - 1 it is bit p.  From
\* INT_BITS - 1 on the shift overflows int and C leaves the result
\* undefined.  A build then either shifts in int (the sign bit extends over
\* bits INT_BITS - 1 .. 31, and a shift by INT_BITS or more leaves 0), or
\* operates on the bit of the 32-bit word directly (SHIFT_WIDE).
Shl1(p) ==
    IF p \in 0..(INT_BITS - 2) THEN {p}
    ELSE IF p \in (INT_BITS - 1)..(DIFF_BITS - 1)
         THEN IF SHIFT_WIDE THEN {p}
              ELSE IF p = INT_BITS - 1 THEN (INT_BITS - 1)..(DIFF_BITS - 1) ELSE {}
         ELSE {}

OwSearchRomFrame ==
    [j |-> 0, k |-> 0, fn |-> "OwSearchRom", pc |-> 304, i |-> 0,
     input |-> 0, output |-> 0, diff |-> {}, diff_index |-> 0,
     temp_byte |-> 0]

\* Variant of the loop test that lets i reach OW_MAX_ROMS.
OwSearchRom_304_OffByOne ==
    /\ At("OwSearchRom", 304)
    /\ Ctl(Goto(IF Top.i <= OW_MAX_ROMS THEN 306 ELSE 413))

\* i < OW_MAX_ROMS
OwSearchRom_304 ==
    /\ At("OwSearchRom", 304)
    /\ Ctl(Goto(IF Top.i < OW_MAX_ROMS THEN 306 ELSE 413))

\* diff_index = 0, and the for loop's j = 0
OwSearchRom_306 ==
    /\ At("OwSearchRom", 306)
    /\ Ctl(SetTop([Top EXCEPT !.pc = 309, !.diff_index = 0, !.j = 0]))

\* Variant whose byte loop makes one turn more: j <= 8.
OwSearchRom_309_OneMore ==
    /\ At("OwSearchRom", 309)
    /\ Ctl(Goto(IF Top.j <= 8 THEN 311 ELSE 383))

\* j < 8
OwSearchRom_309 ==
    /\ At("OwSearchRom", 309)
    /\ Ctl(Goto(IF Top.j < 8 THEN 311 ELSE 383))

\* temp_byte = 0, and the for loop's k = 0
OwSearchRom_311 ==
    /\ At("OwSearchRom", 311)
    /\ Ctl(SetTop([Top EXCEPT !.pc = 313, !.temp_byte = 0, !.k = 0]))

\* k < 8
OwSearchRom_313 ==
    /\ At("OwSearchRom", 313)
    /\ Ctl(Goto(IF Top.k < 8 THEN 315 ELSE 378))

\* if(j == 0 && k == 0)
OwSearchRom_315 ==
    /\ At("OwSearchRom", 315)
    /\ Ctl(Goto(IF Top.j = 0 /\ Top.k = 0 THEN 317 ELSE 322))

OwSearchRom_317 ==
    /\ At("OwSearchRom", 317)
    /\ Ctl(Call(318, OwResetFrame))

OwSearchRom_318 ==
    /\ At("OwSearchRom", 318)
    /\ Ctl(Call(327, OwWriteByteFrame(OW_SEARCH_ROM)))

OwSearchRom_322 ==
    /\ At("OwSearchRom", 322)
    /\ Ctl(Call(327, OwWriteBitFrame(Top.output)))

\* the call in input = OwReadBit()
OwSearchRom_327 ==
    /\ At("OwSearchRom", 327)
    /\ Ctl(Call(328, OwReadBitFrame))

\* the assignment of input = OwReadBit(), and input <<= 1
OwSearchRom_328 ==
    /\ At("OwSearchRom", 328)
    /\ Ctl(SetTop([Top EXCEPT !.pc = 329, !.input = (2 * ret) % 256]))

\* the call in input |= OwReadBit()
OwSearchRom_329 ==
    /\ At("OwSearchRom", 329)
    /\ Ctl(Call(332, OwReadBitFrame))

\* the assignment of input |= OwReadBit(), and switch(input)
OwSearchRom_332 ==
    /\ At("OwSearchRom", 332)
    /\ LET input == IF ret = 1 THEN OrBit(Top.input, 0) ELSE Top.input
           case == CASE input = 0 -> 339
                     [] input = 1 -> 357
                     [] input = 2 -> 363
                     [] input = 3 -> 371
       IN  Ctl(SetTop([Top EXCEPT !.pc = case, !.input = input]))

\* case 0: diff_index++
OwSearchRom_339 ==
    /\ At("OwSearchRom", 339)
    /\ Ctl(SetTop([Top EXCEPT !.pc = 341, !.diff_index = (@ + 1) % 256]))

\* if(diff & 1 << diff_index)
OwSearchRom_341 ==
    /\ At("OwSearchRom", 341)
    /\ Ctl(Goto(IF Top.diff \cap Shl1(Top.diff_index) # {} THEN 343 ELSE 348))

\* Variant of the conflict's 1-branch that leaves the bit of temp_byte
\* clear.
OwSearchRom_343_BitNotStored ==
    /\ At("OwSearchRom", 343)
    /\ Ctl(SetTop([Top EXCEPT !.pc = 313, !.output = 1, !.k = @ + 1]))

\* output = 1; temp_byte |= 1 << k; break; and the for loop's k++
OwSearchRom_343 ==
    /\ At("OwSearchRom", 343)
    /\ Ctl(SetTop([Top EXCEPT !.pc = 313, !.output = 1,
                              !.temp_byte = OrBit(@, Top.k), !.k = @ + 1]))

\* output = 0; break; and k++
OwSearchRom_348 ==
    /\ At("OwSearchRom", 348)
    /\ Ctl(SetTop([Top EXCEPT !.pc = 313, !.output = 0, !.k = @ + 1]))

\* case 1: output = 0; break; and k++
OwSearchRom_357 ==
    /\ At("OwSearchRom", 357)
    /\ Ctl(SetTop([Top EXCEPT !.pc = 313, !.output = 0, !.k = @ + 1]))

\* Variant of case 2 that selects the 1-branch but leaves the bit of
\* temp_byte clear.
OwSearchRom_363_BitNotStored ==
    /\ At("OwSearchRom", 363)
    /\ Ctl(SetTop([Top EXCEPT !.pc = 313, !.output = 1, !.k = @ + 1]))

\* case 2: output = 1; temp_byte |= 1 << k; break; and k++
OwSearchRom_363 ==
    /\ At("OwSearchRom", 363)
    /\ Ctl(SetTop([Top EXCEPT !.pc = 313, !.output = 1,
                              !.temp_byte = OrBit(@, Top.k), !.k = @ + 1]))

\* Variant of case 3 that reports the identifiers stored so far.
OwSearchRom_371_ReturnsStored ==
    /\ At("OwSearchRom", 371)
    /\ ret' = Top.i
    /\ stack' = Return
    /\ Done(ret', sreg_i)
    /\ UNCHANGED <<conf, hw, roms, env, trace, slot>>

\* case 3: return 0
OwSearchRom_371 ==
    /\ At("OwSearchRom", 371)
    /\ ret' = 0
    /\ stack' = Return
    /\ Done(0, sreg_i)
    /\ UNCHANGED <<conf, hw, roms, env, trace, slot>>

\* ctx->roms[i][j] = temp_byte, and the for loop's j++
OwSearchRom_378 ==
    /\ At("OwSearchRom", 378)
    /\ roms' = [roms EXCEPT ![Top.i][Top.j] = Top.temp_byte]
    /\ stack' = SetTop([Top EXCEPT !.pc = 309, !.j = @ + 1])
    /\ UNCHANGED <<conf, hw, ret, env, obs>>

\* if(diff & (1 << diff_index))
OwSearchRom_383 ==
    /\ At("OwSearchRom", 383)
    /\ Ctl(Goto(IF Top.diff \cap Shl1(Top.diff_index) # {} THEN 385 ELSE 399))

\* j = 0
OwSearchRom_385 ==
    /\ At("OwSearchRom", 385)
    /\ Ctl(SetTop([Top EXCEPT !.pc = 387, !.j = 0]))

\* while(diff & (1 << (diff_index - j))) { diff &= ~(1 << (diff_index - j)); j++; }
\* one turn of the loop, or its end
OwSearchRom_387 ==
    /\ At("OwSearchRom", 387)
    /\ LET m == Shl1(Top.diff_index - Top.j)
       IN  IF Top.diff \cap m # {}
           THEN Ctl(SetTop([Top EXCEPT !.diff = @ \ m, !.j = (@ + 1) % 256]))
           ELSE Ctl(Goto(395))

\* diff |= 1 << (diff_index - j)
OwSearchRom_395 ==
    /\ At("OwSearchRom", 395)
    /\ Ctl(SetTop([Top EXCEPT !.pc = 403,
                              !.diff = @ \cup Shl1(Top.diff_index - Top.j)]))

\* diff |= 1 << diff_index
OwSearchRom_399 ==
    /\ At("OwSearchRom", 399)
    /\ Ctl(SetTop([Top EXCEPT !.pc = 403, !.diff = @ \cup Shl1(Top.diff_index)]))

\* Variant of the end of a pass that never breaks out of the loop.
OwSearchRom_403_NoBreak ==
    /\ At("OwSearchRom", 403)
    /\ Ctl(SetTop([Top EXCEPT !.pc = 304, !.i = @ + 1]))

\* if(diff & 1) break; otherwise the for loop's i++
OwSearchRom_403 ==
    /\ At("OwSearchRom", 403)
    /\ Ctl(IF 0 \in Top.diff
           THEN Goto(413)
           ELSE SetTop([Top EXCEPT !.pc = 304, !.i = @ + 1]))

\* Variant of the return without the check of line 413: return i + 1.
OwSearchRom_413_Unchecked ==
    /\ At("OwSearchRom", 413)
    /\ ret' = Top.i + 1
    /\ stack' = Return
    /\ Done(ret', sreg_i)
    /\ UNCHANGED <<conf, hw, roms, env, trace, slot>>

\* if(i == OW_MAX_ROMS) return OW_MAX_ROMS; return i + 1;
OwSearchRom_413 ==
    /\ At("OwSearchRom", 413)
    /\ ret' = IF Top.i = OW_MAX_ROMS THEN OW_MAX_ROMS ELSE Top.i + 1
    /\ stack' = Return
    /\ Done(ret', sreg_i)
    /\ UNCHANGED <<conf, hw, roms, env, trace, slot>>

OwSearchRom ==
    \/ OwSearchRom_304
    \/ OwSearchRom_306
    \/ OwSearchRom_309
    \/ OwSearchRom_311
    \/ OwSearchRom_313
    \/ OwSearchRom_315
    \/ OwSearchRom_317
    \/ OwSearchRom_318
    \/ OwSearchRom_322
    \/ OwSearchRom_327
    \/ OwSearchRom_328
    \/ OwSearchRom_329
    \/ OwSearchRom_332
    \/ OwSearchRom_339
    \/ OwSearchRom_341
    \/ OwSearchRom_343
    \/ OwSearchRom_348
    \/ OwSearchRom_357
    \/ OwSearchRom_363
    \/ OwSearchRom_371
    \/ OwSearchRom_378
    \/ OwSearchRom_383
    \/ OwSearchRom_385
    \/ OwSearchRom_387
    \/ OwSearchRom_395
    \/ OwSearchRom_399
    \/ OwSearchRom_403
    \/ OwSearchRom_413

----------------------------------------------------------------------------
(* The caller: the application calls the library's functions one after     *)
(* the other.                                                              *)

Enter(fn, arg, frame) ==
    /\ stack = <<>>
    /\ Len(hist) < MaxCalls
    /\ stack' = <<frame>>
    /\ api' = [fn |-> fn, ops |-> <<>>, arg |-> arg, resets |-> 0,
               entry |-> sreg_i]
    /\ trace' = <<>>
    /\ UNCHANGED <<conf, hw, ret, roms, env, slot, hist>>

CallOwInit == Enter("OwInit", <<>>, [fn |-> "OwInit", pc |-> 59])

CallOwReset == Enter("OwReset", <<>>, OwResetFrame)

CallOwReadByte == Enter("OwReadByte", <<>>, OwReadByteFrame)

\* The bytes the application sends.
Bytes == {1, OW_MATCH_ROM, OW_SEARCH_ROM}

CallOwWriteByte == \E b \in Bytes : Enter("OwWriteByte", <<b>>, OwWriteByteFrame(b))

CallOwWriteByteTo ==
    \E rom \in {OW_MAX_ROMS - 1}, b \in {OW_SEARCH_ROM} :
        Enter("OwWriteByteTo", <<rom, b>>, OwWriteByteToFrame(rom, b))

CallOwSearchRom == Enter("OwSearchRom", <<>>, OwSearchRomFrame)

----------------------------------------------------------------------------
(* Buses.                                                                  *)

\* Identifiers that differ in the first bit, in the last bit, and inside.
RomA == Rom({})
RomB == Rom({63})
RomC == Rom({0})
RomD == Rom({0, 63})
RomE == Rom({7, 8, 35})
RomF == Rom({0, 8})
RomG == Rom(0..63)

\* n devices of which one drops out at each of the first n - 1 bit positions
\* when the 0-branch is followed.
Comb(n) == {Rom({p}) : p \in 0..(n - 2)} \cup {Rom({})}

\* Buses of well-behaved devices: 0 to 4 devices in every combination, and
\* one bus of each larger size.
SmallBuses == SUBSET {RomA, RomB, RomC, RomD}
LargeBuses ==
    { {RomA, RomB, RomC, RomD, RomE},
      {RomA, RomB, RomC, RomD, RomE, RomF},
      {RomA, RomB, RomC, RomD, RomE, RomF, RomG},
      Comb(CombSize - 1),
      Comb(CombSize) }

\* The registry before the first search: every byte the same.
Registries == { [i \in 0..(OW_MAX_ROMS - 1) |-> [j \in 0..7 |-> b]] : b \in {165} }

InitWith(pullups, blocks, bitlevels, builds, flags, buses, wires, regs) ==
    /\ OW_INTERNAL_PULLUP \in pullups
    /\ OW_BLOCK_INTERRUPTS \in blocks
    /\ OW_BLOCK_INTERRUPTS_BITLEVEL \in bitlevels
    /\ SHIFT_WIDE \in builds
    /\ ddr = 0
    /\ port = 0
    /\ sreg_i \in flags
    /\ stack = <<>>
    /\ ret = 0
    /\ roms \in regs
    /\ devices \in buses
    /\ wire \in wires
    /\ nfaults = 0
    /\ active = {}
    /\ phase = IF wire = "loopback" THEN "cmd" ELSE "idle"
    /\ pos = 0
    /\ cmd = <<>>
    /\ hold = 0
    /\ lowtime = 0
    /\ trace = <<>>
    /\ slot = NoSlot
    /\ api = Idle
    /\ hist = <<>>

\* The search on buses of well-behaved devices, configured as conf.h ships
\* (none of the three macros defined).
InitSearch ==
    InitWith({FALSE}, {FALSE}, {FALSE}, BOOLEAN, {TRUE},
             SmallBuses \cup LargeBuses, {"bus"}, Registries)

Slots == OwWriteBusHigh \/ OwWriteBusLow \/ OwReset \/ OwReadBit \/ OwWriteBit \/ OwWriteByte

NextSearch == CallOwSearchRom \/ OwSearchRom \/ Slots

SpecSearch == InitSearch /\ [][NextSearch]_vars

\* A registry whose bytes all differ, as a search leaves it.
DistinctRegistry == [i \in 0..(OW_MAX_ROMS - 1) |-> [j \in 0..7 |-> 16 * i + j + 1]]

\* The reset, byte and addressed-command functions, called in any order,
\* under every configuration of the three macros, with interrupts enabled
\* or disabled at the start, on a bus without and with a device and on a
\* loopback line.
Init ==
    InitWith(BOOLEAN, BOOLEAN, BOOLEAN, {FALSE}, BOOLEAN,
             {{}, {RomE}}, {"bus", "loopback"}, {DistinctRegistry})

Next ==
    \/ CallOwInit
    \/ CallOwReset
    \/ CallOwReadByte
    \/ CallOwWriteByte
    \/ CallOwWriteByteTo
    \/ OwInit
    \/ OwReadByte
    \/ OwWriteByteTo
    \/ Slots

Spec == Init /\ [][Next]_vars

\* A byte is written to a loopback line and read back: every byte value,
\* as conf.h ships.
CallOwWriteByteFirst ==
    /\ hist = <<>>
    /\ \E b \in 0..255 : Enter("OwWriteByte", <<b>>, OwWriteByteFrame(b))

CallOwReadByteBack ==
    /\ hist # <<>>
    /\ CallOwReadByte

NextLoop ==
    \/ CallOwWriteByteFirst
    \/ CallOwReadByteBack
    \/ OwWriteByte
    \/ OwReadByte
    \/ OwWriteBit
    \/ OwReadBit
    \/ OwWriteBusHigh
    \/ OwWriteBusLow

SpecLoop ==
    /\ InitWith({FALSE}, {FALSE}, {FALSE}, {FALSE}, {TRUE},
                {{}}, {"loopback"}, Registries)
    /\ [][NextLoop]_vars

\* The whole library under every configuration of the three macros, with
\* interrupts enabled or disabled at the start, on a bus without a device
\* and on a bus of two devices.  A search is the first call; any other
\* function may follow it.
CallOwSearchRomFirst ==
    /\ hist = <<>>
    /\ CallOwSearchRom

NextAll ==
    \/ Next
    \/ CallOwSearchRomFirst
    \/ OwSearchRom

SpecAll ==
    /\ InitWith(BOOLEAN, BOOLEAN, BOOLEAN, {FALSE}, BOOLEAN,
                {{}, {RomC, RomD}}, {"bus"}, {DistinctRegistry})
    /\ [][NextAll]_vars

----------------------------------------------------------------------------
(* Faults of the line during a search.                                     *)

\* The line goes dead at the start of a read slot: from now on no device is
\* heard, and every read gives 1.
LineDies ==
    /\ At("OwReadBit", 118)
    /\ wire \in {"bus", "short"}
    /\ nfaults < MaxFaults
    /\ wire' = "dead"
    /\ nfaults' = nfaults + 1
    /\ UNCHANGED <<conf, hw, prog, devices, dev, line, obs>>

\* The line is shorted to ground when a pass starts: every read gives 0,
\* every read pair reports a conflict.
LineShorts ==
    /\ At("OwReset", 75)
    /\ wire = "bus"
    /\ nfaults < MaxFaults
    /\ wire' = "short"
    /\ nfaults' = nfaults + 1
    /\ UNCHANGED <<conf, hw, prog, devices, dev, line, obs>>

\* The short circuit is removed when a pass starts.
LineRecovers ==
    /\ At("OwReset", 75)
    /\ wire = "short"
    /\ nfaults < MaxFaults
    /\ wire' = "bus"
    /\ nfaults' = nfaults + 1
    /\ UNCHANGED <<conf, hw, prog, devices, dev, line, obs>>

FaultBuses ==
    { {}, {RomE}, {RomA, RomB}, {RomA, RomB, RomC, RomD, RomE, RomF} }

\* One search on a line that is sound, shorted or dead at the start and may
\* change its condition MaxFaults times.
InitFault ==
    InitWith({FALSE}, {FALSE}, {FALSE}, BOOLEAN, {TRUE},
             FaultBuses, {"bus", "short", "dead"}, Registries)

NextFault ==
    \/ (CallOwSearchRom /\ hist = <<>>)
    \/ OwSearchRom
    \/ Slots
    \/ LineDies
    \/ LineShorts
    \/ LineRecovers

SpecFault == InitFault /\ [][NextFault]_vars

\* The same, with the processor never stopping inside the library: a
\* statement that can be executed is executed in the end.
SpecFaultFair == SpecFault /\ WF_vars(OwSearchRom \/ Slots)

----------------------------------------------------------------------------
(* Properties of the search on buses of well-behaved devices.              *)

\* The completed calls of OwSearchRom.
Searches == {n \in 1..Len(hist) : hist[n].fn = "OwSearchRom"}

\* The identifiers in registry entries 0..count-1 when call n returned.
Found(n) == {hist[n].roms[e] : e \in 0..(hist[n].ret - 1)}

\* Two devices that differ in the final address bit only: a ends in 0, b in 1.
FinalBitPair(a, b) ==
    /\ devices = {a, b}
    /\ \A p \in 0..62 : IdBit(a, p) = IdBit(b, p)
    /\ IdBit(a, 63) = 0
    /\ IdBit(b, 63) = 1

\* C1: on a bus of k distinct well-behaved devices, 1 <= k <= OW_MAX_ROMS,
\* every call of OwSearchRom returns k and leaves in registry entries
\* 0..k-1 exactly the k identifiers of the devices, whatever the registry
\* held before the call; so a further call returns the same count and the
\* same registry content.
C1_SearchFindsEveryDevice ==
    Cardinality(devices) \in 1..OW_MAX_ROMS =>
        /\ \A n \in Searches :
              /\ hist[n].ret = Cardinality(devices)
              /\ Found(n) = devices
        /\ \A m, n \in Searches :
              /\ hist[m].ret = hist[n].ret
              /\ Found(m) = Found(n)

\* Two searches have returned on a bus of OW_MAX_ROMS devices, the first
\* started on a registry that held none of their identifiers, and both
\* left the same registry.
C1_Witness ==
    /\ Cardinality(devices) = OW_MAX_ROMS
    /\ Searches = {1, 2}
    /\ hist[2].ret = OW_MAX_ROMS
    /\ Found(1) = devices
    /\ hist[1].roms = hist[2].roms

\* C2: with more than OW_MAX_ROMS devices on the bus, OwSearchRom makes
\* OW_MAX_ROMS passes (one reset pulse each) and returns OW_MAX_ROMS; with
\* exactly OW_MAX_ROMS devices it returns OW_MAX_ROMS too.
C2_Saturation ==
    \A n \in Searches :
        /\ Cardinality(devices) >= OW_MAX_ROMS => hist[n].ret = OW_MAX_ROMS
        /\ Cardinality(devices) > OW_MAX_ROMS => hist[n].resets = OW_MAX_ROMS

\* A search has returned on a bus of more than OW_MAX_ROMS devices.
C2_Witness ==
    /\ Cardinality(devices) > OW_MAX_ROMS
    /\ Searches # {}

\* C4: with two devices that differ in the final address bit only, a call of
\* OwSearchRom makes two passes, stores the identifier that ends in 0 at
\* index 0 and the one that ends in 1 at index 1, and returns 2.
C4_FinalBitConflict ==
    \A a, b \in devices :
        FinalBitPair(a, b) =>
            \A n \in Searches :
                /\ hist[n].resets = 2
                /\ hist[n].ret = 2
                /\ hist[n].roms[0] = a
                /\ hist[n].roms[1] = b

\* A search has returned on such a bus.
C4_Witness ==
    /\ \E a, b \in devices : FinalBitPair(a, b)
    /\ Searches # {}

----------------------------------------------------------------------------
(* Properties of the search on a line with faults.                         *)

\* The frame of the running search, which is the first of the stack.
Searching == stack # <<>> /\ stack[1].fn = "OwSearchRom"

\* C3: when the two reads of a bit position both give 1, at any position of
\* any pass, the search goes to return 0 at once: the statement that
\* follows the second read leads to line 371 and line 371 returns 0, and
\* neither touches the pin, waits or samples.  A search on a line that is
\* dead from the start therefore returns 0.
C3_NoResponseAbort ==
    /\ [][ (At("OwSearchRom", 332) /\ Top.input = 2 /\ ret = 1) =>
              /\ Len(stack') = 1
              /\ stack'[1].pc = 371
              /\ UNCHANGED <<hw, roms, env, trace, slot, api, hist>> ]_vars
    /\ [][ At("OwSearchRom", 371) =>
              /\ stack' = <<>>
              /\ ret' = 0
              /\ hist' = Append(hist, [sreg_i |-> sreg_i, ret |-> 0,
                                       roms |-> roms,
                                       fn |-> "OwSearchRom",
                                       ops |-> api.ops,
                                       arg |-> <<>>,
                                       resets |-> api.resets,
                                       entry |-> api.entry])
              /\ UNCHANGED <<hw, roms, env, trace, slot>> ]_vars
    /\ [](\A n \in Searches : (wire = "dead" /\ nfaults = 0) => hist[n].ret = 0)

\* A read pair gave (1, 1) in a later pass, after identifiers were stored.
C3_Witness ==
    /\ At("OwSearchRom", 371)
    /\ Top.i >= 1
    /\ Top.j >= 1
    /\ slot.fn = "OwReadBit"
    /\ slot.ret = 1

\* C5: whatever the line answers, the search stores a byte only at a device
\* index below OW_MAX_ROMS and a byte index in 0..7, the registry keeps its
\* shape of OW_MAX_ROMS identifiers of 8 bytes, and the count returned is
\* in 0..OW_MAX_ROMS.
C5_RegistryBounds ==
    /\ At("OwSearchRom", 378) =>
          /\ Top.i \in 0..(OW_MAX_ROMS - 1)
          /\ Top.j \in 0..7
          /\ Top.temp_byte \in 0..255
    /\ DOMAIN roms = 0..(OW_MAX_ROMS - 1)
    /\ \A e \in DOMAIN roms : roms[e] \in [0..7 -> 0..255]
    /\ \A n \in Searches : hist[n].ret \in 0..OW_MAX_ROMS

\* The last byte of the last registry entry is stored while the line is
\* shorted.
C5_Witness ==
    /\ At("OwSearchRom", 378)
    /\ Top.i = OW_MAX_ROMS - 1
    /\ Top.j = 7
    /\ wire = "short"

\* C6: the difference-stack pointer never exceeds 31.
C6_DiffIndexBound ==
    Searching => stack[1].diff_index <= DIFF_BITS - 1

----------------------------------------------------------------------------
(* Properties of the reset pulse and of the bit slots.                     *)

\* The events of a trace without the moment OwWriteBusLow has the pin at
\* "high" under OW_INTERNAL_PULLUP (the direction is switched before the
\* port bit is cleared).
Events(t) == SelectSeq(t, LAMBDA e : e # <<"high">>)

\* The sum of the delays of a trace, in microseconds.
RECURSIVE TotalDelay(_)
TotalDelay(t) ==
    IF t = <<>> THEN 0
    ELSE (IF Head(t)[1] = "delay" THEN Head(t)[2] ELSE 0) + TotalDelay(Tail(t))

\* The levels sampled in a trace, in order.
Sampled(t) == SelectSeq(t, LAMBDA e : e[1] = "sample")

\* C7: OwReset drives the line low, waits 500 us, releases the line, waits
\* 60 us, samples the line and waits 440 us, each once and in this order;
\* it returns 1 when the sampled level is low and 0 when it is high: 0 on
\* a bus without a device, 1 when a device answers.
C7_ResetSequence ==
    slot.fn = "OwReset" =>
        /\ \E v \in {0, 1} :
              /\ Events(slot.trace) =
                    << <<"low">>, <<"delay", 500>>, <<"released">>, <<"delay", 60>>,
                       <<"sample", v>>, <<"delay", 440>> >>
              /\ slot.ret = 1 - v
        /\ (wire = "bus" /\ devices = {}) => slot.ret = 0
        /\ (wire = "bus" /\ devices # {}) => slot.ret = 1

\* OwReset has returned 1 on a bus with a device.
C7_Witness ==
    /\ slot.fn = "OwReset"
    /\ slot.ret = 1
    /\ devices # {}
    /\ wire = "bus"

\* C8 as claimed: a reset blocks for 500 us, a bit slot for 65 us.
C8_AsClaimed ==
    /\ slot.fn = "OwReset" => TotalDelay(slot.trace) = 500
    /\ slot.fn \in {"OwReadBit", "OwWriteBit"} => TotalDelay(slot.trace) = 65

\* C8, amended: the delays of an OwReset call add up to 1000 us (the 500 us
\* low pulse, then 60 us and 440 us after the release), whatever is
\* sampled; the delays of a read or write slot add up to 65 us, whatever is
\* written or sampled.
C8_BlockingTime ==
    /\ slot.fn = "OwReset" =>
          TotalDelay(slot.trace) = OW_RESET_DELAY + OW_RESET_DELAY
    /\ slot.fn \in {"OwReadBit", "OwWriteBit"} =>
          TotalDelay(slot.trace) = OW_SHORT_DELAY + OW_LONG_DELAY

\* A reset that saw no presence pulse has returned.
C8_Witness ==
    /\ slot.fn = "OwReset"
    /\ slot.ret = 0
    /\ TotalDelay(slot.trace) = 1000

\* C9: OwWriteBit of an argument whose least significant bit is 1 drives the
\* line low for 5 us and leaves it released for 60 us; of an argument whose
\* least significant bit is 0, low for 60 us and released for 5 us.  The
\* other bits of the argument do not matter and the line is released when
\* the slot ends.
C9_WriteBitEncoding ==
    slot.fn = "OwWriteBit" =>
        /\ slot.pin = "released"
        /\ Events(slot.trace) =
              IF slot.arg % 2 = 1
              THEN << <<"low">>, <<"delay", 5>>, <<"released">>, <<"delay", 60>> >>
              ELSE << <<"low">>, <<"delay", 60>>, <<"released">>, <<"delay", 5>> >>

\* A bit was written from an argument that is even and not 0.
C9_Witness ==
    /\ slot.fn = "OwWriteBit"
    /\ slot.arg % 2 = 0
    /\ slot.arg > 1

\* C10: OwReadBit drives the line low for 5 us, releases it, waits 5 us,
\* samples the line once and waits 55 us, the same whatever it samples; it
\* returns 1 when the sampled level is high and 0 when it is low.
C10_ReadBitSlot ==
    slot.fn = "OwReadBit" =>
        \E v \in {0, 1} :
           /\ Events(slot.trace) =
                 << <<"low">>, <<"delay", 5>>, <<"released">>, <<"delay", 5>>,
                    <<"sample", v>>, <<"delay", 55>> >>
           /\ slot.ret = v

\* A read slot has sampled a low level.
C10_Witness ==
    /\ slot.fn = "OwReadBit"
    /\ slot.ret = 0
    /\ Sampled(slot.trace) = << <<"sample", 0>> >>

----------------------------------------------------------------------------
(* Properties of the byte functions.                                       *)

\* The slots of a byte, least significant bit first: eight slots of kind
\* k, the i-th (from 0) with bit i of b.
ByteSlots(k, b) == [n \in 1..8 |-> <<k, BitOf(b, n - 1)>>]

\* C11: OwWriteByte(b) makes eight write slots and nothing else, and the
\* i-th slot carries bit i of b; OwReadByte makes eight read slots and
\* nothing else, and bit i of the byte it returns is the level sampled in
\* the i-th slot; so on a loopback line OwReadByte after OwWriteByte(b)
\* returns b, for every b in 0..255.
C11_ByteFraming ==
    \A n \in 1..Len(hist) :
        /\ hist[n].fn = "OwWriteByte" =>
              hist[n].ops = ByteSlots("write", hist[n].arg[1])
        /\ hist[n].fn = "OwReadByte" =>
              /\ hist[n].ret \in 0..255
              /\ hist[n].ops = ByteSlots("read", hist[n].ret)
        /\ (n > 1 /\ hist[n].fn = "OwReadByte" /\ hist[n - 1].fn = "OwWriteByte") =>
              hist[n].ret = hist[n - 1].arg[1]

\* A byte that is not its own mirror image, 0x4B, was written and read back.
C11_Witness ==
    /\ Len(hist) = 2
    /\ hist[1].fn = "OwWriteByte"
    /\ hist[1].arg = <<75>>
    /\ hist[2].fn = "OwReadByte"
    /\ hist[2].ret = 75

\* The slots of a sequence of bytes, each least significant bit first.
BytesSlots(bs) ==
    [n \in 1..(8 * Len(bs)) |-> <<"write", BitOf(bs[((n - 1) \div 8) + 1], (n - 1) % 8)>>]

----------------------------------------------------------------------------
(* Interrupts.                                                             *)

\* Whether function f is running or waiting for a function it called.
InFn(f) == \E n \in 1..Len(stack) : stack[n].fn = f

InSlot == InFn("OwReadBit") \/ InFn("OwWriteBit")

\* A step that moves the line, waits or samples: it adds an event to the
\* trace.
LineEvent == trace' # trace /\ trace' # <<>>

\* The events OwReset makes between its cli() and its sei() of the
\* bit-level option.
PresenceWindow ==
    { <<"released">>, <<"delay", OW_LONG_DELAY>>, <<"sample", 0>>, <<"sample", 1>> }

BitLevelOnly == OW_BLOCK_INTERRUPTS_BITLEVEL /\ ~OW_BLOCK_INTERRUPTS

\* C13: with OW_BLOCK_INTERRUPTS_BITLEVEL alone and interrupts enabled when
\* a function is called: every line transition, delay and sample of a read
\* or write slot happens with interrupts disabled; outside the slots and
\* outside OwReset, so between the slots of a byte or of a search,
\* interrupts are enabled; in OwReset exactly the release of the line, the
\* 60 us delay and the sample happen with interrupts disabled, the low
\* pulse and the 440 us delay with interrupts enabled.
C13_BitLevelSuppression ==
    [][ (BitLevelOnly /\ stack # <<>> /\ api.entry) =>
           /\ (InSlot /\ LineEvent) => ~sreg_i
           /\ (~InSlot /\ ~InFn("OwReset")) => sreg_i
           /\ (InFn("OwReset") /\ LineEvent) =>
                 (~sreg_i <=> trace'[Len(trace')] \in PresenceWindow) ]_vars

\* A slot of the second pass of a search is under way with interrupts
\* disabled.
C13_Witness ==
    /\ BitLevelOnly
    /\ api.fn = "OwSearchRom"
    /\ api.entry
    /\ api.resets = 2
    /\ InSlot
    /\ trace # <<>>
    /\ ~sreg_i

BlockOnly == OW_BLOCK_INTERRUPTS /\ ~OW_BLOCK_INTERRUPTS_BITLEVEL

\* The running call has made its first line transition.
Started == api.ops # <<>> \/ trace # <<>>

\* The running call has made its last delay: the 440 us delay of OwReset,
\* or the last of the 8 or 80 slots of a byte function.
Finished ==
    CASE api.fn = "OwReset" ->
            trace # <<>> /\ trace[Len(trace)] = <<"delay", OW_RESET_DELAY - OW_LONG_DELAY>>
      [] api.fn = "OwWriteByteTo" -> Len(api.ops) = 80
      [] OTHER -> Len(api.ops) = 8

\* C14: with OW_BLOCK_INTERRUPTS alone, interrupts are disabled in every
\* state of a call of OwReset, OwReadByte, OwWriteByte or OwWriteByteTo
\* between its first line transition and its last delay; so OwWriteByteTo
\* does not enable them between its ten bytes.
C14_WholeOperationSuppression ==
    ( /\ BlockOnly
      /\ stack # <<>>
      /\ api.fn \in {"OwReset", "OwReadByte", "OwWriteByte", "OwWriteByteTo"}
      /\ Started
      /\ ~Finished ) => ~sreg_i

----------------------------------------------------------------------------
(* The bus events of a pass of the search.                                 *)

\* A pass has made its 64 bit positions and stored its identifier.
PassDone == At("OwSearchRom", 383)

\* In the slots o of a pass, the two reads of bit position p (0..63) are at
\* 10 + 3p and 11 + 3p, after the reset pulse and the eight slots of the
\* command; the write before them, for p > 0, is at 9 + 3p.
ReadPair(o, p) == <<o[10 + 3 * p][2], o[11 + 3 * p][2]>>

\* The number of conflicts at positions 0..p.
Depth(o, p) == Cardinality({q \in 0..p : ReadPair(o, q) = <<0, 0>>})

\* C15: when a pass of the search has made its 64 bit positions, the slots
\* since its reset pulse are: the reset pulse (the only one of the pass,
\* and the pass is the i-th reset pulse of the call), the eight write
\* slots of OW_SEARCH_ROM, then for each position two read slots, with
\* one write slot before the read pairs of positions 1..63 that carries
\* the bit decided at the position before.  A read pair is (0, 0) or (bit,
\* complement of bit) of the bit decided; at a conflict the bit decided is
\* the entry of the difference stack at the depth of the conflict.
\* Nothing follows the last read pair.
C15_PassEvents ==
    PassDone =>
        LET o  == api.ops
            id == roms[Top.i]
        IN  /\ Len(o) = 200
            /\ api.resets = Top.i + 1
            /\ o[1][1] = "reset"
            /\ SubSeq(o, 2, 9) = ByteSlots("write", OW_SEARCH_ROM)
            /\ \A p \in 0..63 :
                  LET d == IdBit(id, p) IN
                  /\ o[10 + 3 * p][1] = "read"
                  /\ o[11 + 3 * p][1] = "read"
                  /\ ReadPair(o, p) \in {<<0, 0>>, <<d, 1 - d>>}
                  /\ ReadPair(o, p) = <<0, 0>> =>
                        d = (IF Depth(o, p) \in Top.diff THEN 1 ELSE 0)
                  /\ p > 0 => o[9 + 3 * p] = <<"write", IdBit(id, p - 1)>>

\* The third pass on a bus of four devices is done: it had conflicts at the
\* first and at the last position and took the 1-branch at the first.
C15_Witness ==
    /\ PassDone
    /\ devices = {RomA, RomB, RomC, RomD}
    /\ Top.i = 2
    /\ ReadPair(api.ops, 0) = <<0, 0>>
    /\ ReadPair(api.ops, 63) = <<0, 0>>
    /\ roms[2] = RomC

----------------------------------------------------------------------------
(* Termination of the search.                                              *)

\* C16: whatever the line answers, a call of OwSearchRom returns; before
\* that it has made at most OW_MAX_ROMS passes, each of at most 64 read
\* pairs (200 slots with the reset pulse and the command), and in the loop
\* of lines 387-389 and at line 395 the position diff_index - j is never
\* negative.
C16_Termination ==
    /\ [](Searching =>
            /\ api.resets <= OW_MAX_ROMS
            /\ Len(api.ops) <= 200
            /\ stack[1].i <= OW_MAX_ROMS
            /\ stack[1].pc \in {387, 395} => stack[1].diff_index - stack[1].j >= 0)
    /\ (Searching ~> stack = <<>>)

\* The carry loop has gone down to entry 0 on a line that was shorted.
C16_Witness ==
    /\ At("OwSearchRom", 395)
    /\ Top.j = Top.diff_index
    /\ Top.j > 0
    /\ nfaults > 0

----------------------------------------------------------------------------
(* The difference stack.                                                   *)

\* The entry of the difference stack the search is about to test, set or
\* clear with 1 << p: p is diff_index at lines 341, 383 and 399, and
\* diff_index - j at lines 387 and 395.
Pointer ==
    IF stack[1].pc \in {387, 395} THEN stack[1].diff_index - stack[1].j
    ELSE stack[1].diff_index

\* C17: whenever the search is about to test, set or clear entry p of the
\* difference stack, p in 0..31, the mask 1 << p as it is combined with the
\* 32-bit word is bit p alone.
C17_MaskSelectsOneBit ==
    (/\ Searching
     /\ Len(stack) = 1
     /\ stack[1].pc \in {341, 383, 387, 395, 399}
     /\ Pointer \in 0..(DIFF_BITS - 1))
        => Shl1(Pointer) = {Pointer}

----------------------------------------------------------------------------
(* The pin.                                                                *)

\* C18: once OwInit has been called, in every state the pin is driven low
\* (direction output, port bit 0) or released (direction input), never an
\* output with port bit 1, in both pull modes.
C18_OpenDrain ==
    (hist # <<>> /\ hist[1].fn = "OwInit") =>
        PinState(ddr, port) \in {"low", "released"}

\* C19: on a bus of well-behaved devices, at most 32 of them: a pass
\* starts with entry 0 of the difference stack clear; when a pass has made
\* its 64 positions no entry above diff_index, the number of conflicts of
\* the pass, is set; and when entry 0 is set after the update of the
\* stack, every conflict of the pass took its 1-branch (or there was none).
C19_StackInvariant ==
    (Searching /\ Len(stack) = 1 /\ Cardinality(devices) <= DIFF_BITS) =>
        /\ Top.pc = 306 => 0 \notin Top.diff
        /\ Top.pc = 383 => \A e \in Top.diff : e <= Top.diff_index
        /\ (Top.pc = 403 /\ 0 \in Top.diff) =>
              \A p \in 0..63 :
                  ReadPair(api.ops, p) = <<0, 0>> => IdBit(roms[Top.i], p) = 1

\* C20: with OW_BLOCK_INTERRUPTS or OW_BLOCK_INTERRUPTS_BITLEVEL defined,
\* every call of OwReset, OwReadByte, OwWriteByte, OwWriteByteTo and
\* OwSearchRom returns with interrupts enabled, whether they were enabled
\* or disabled when it was called.
C20_ReturnsWithInterruptsEnabled ==
    (OW_BLOCK_INTERRUPTS \/ OW_BLOCK_INTERRUPTS_BITLEVEL) =>
        \A n \in 1..Len(hist) :
            hist[n].fn \in {"OwReset", "OwReadByte", "OwWriteByte",
                            "OwWriteByteTo", "OwSearchRom"}
                => hist[n].sreg_i

\* With OW_BLOCK_INTERRUPTS alone, a search called with interrupts disabled
\* has found two devices and returned with interrupts enabled.
C20_Witness ==
    /\ BlockOnly
    /\ hist # <<>>
    /\ hist[1].fn = "OwSearchRom"
    /\ hist[1].ret = 2
    /\ ~hist[1].entry
    /\ hist[1].sreg_i

=============================================================================
